---- MODULE Spec2Model ----
(***************************************************************************)
(* Model of the duotone photo editor: the pixel pipeline of                *)
(* modules/image-core.js, modules/utils.js, modules/filters/duotone.js and *)
(* its orchestration by processImage in main.js.                           *)
(*                                                                         *)
(* JavaScript numbers are IEEE-754 binary64.  Every arithmetic step of the *)
(* source is modelled with its rounding: a Number is a sign and a          *)
(* magnitude held as a fixed-point natural of NumLimbs limbs of LimbBits   *)
(* bits (FracLimbs of them below the binary point), and every operation    *)
(* computes the exact result and rounds it to 53 significant bits, ties to *)
(* even.  The magnitudes the program produces lie between 2^-20 and 2^30,  *)
(* so each of its doubles is exactly representable in this format.         *)
(***************************************************************************)
EXTENDS Integers, Sequences, FiniteSets, TLC

\* ------------------------------------------------------------------------
\* binary64 arithmetic
\* ------------------------------------------------------------------------

LimbBits == 3 * 5
LimbBase == 2 ^ LimbBits
FracLimbs == 2 + 3
NumLimbs == FracLimbs + 2
Significand == 50 + 3

MaxOf(S) == CHOOSE x \in S : \A y \in S : y <= x
MinOf(S) == CHOOSE x \in S : \A y \in S : x <= y

ZeroMag == [i \in 1..NumLimbs |-> 0]

\* the magnitude of the natural n < LimbBase^2
IntMag(n) ==
    [i \in 1..NumLimbs |->
        IF i = FracLimbs + 1 THEN n % LimbBase
        ELSE IF i = FracLimbs + 2 THEN n \div LimbBase
        ELSE 0]

\* -1, 0, 1 as a < b, a = b, a > b
MagCmp(a, b) ==
    LET D == {i \in 1..NumLimbs : a[i] # b[i]}
    IN  IF D = {} THEN 0
        ELSE IF a[MaxOf(D)] > b[MaxOf(D)] THEN 1 ELSE -1

RECURSIVE AddFrom(_, _, _, _)
AddFrom(a, b, i, carry) ==
    IF i > NumLimbs THEN <<>>
    ELSE LET s == a[i] + b[i] + carry
         IN  <<s % LimbBase>> \o AddFrom(a, b, i + 1, s \div LimbBase)

MagAdd(a, b) == AddFrom(a, b, 1, 0)

RECURSIVE SubFrom(_, _, _, _)
SubFrom(a, b, i, borrow) ==
    IF i > NumLimbs THEN <<>>
    ELSE LET d == a[i] - b[i] - borrow
         IN  IF d < 0 THEN <<d + LimbBase>> \o SubFrom(a, b, i + 1, 1)
             ELSE <<d>> \o SubFrom(a, b, i + 1, 0)

\* a - b for a >= b
MagSub(a, b) == SubFrom(a, b, 1, 0)

RECURSIVE MulFrom(_, _, _, _)
MulFrom(a, k, i, carry) ==
    IF i > NumLimbs THEN <<>>
    ELSE LET p == a[i] * k + carry
         IN  <<p % LimbBase>> \o MulFrom(a, k, i + 1, p \div LimbBase)

\* a * k for a natural k < LimbBase
MagMulInt(a, k) == MulFrom(a, k, 1, 0)

BitLen(x) == CHOOSE n \in 0..LimbBits : 2 ^ n > x /\ (n = 0 \/ 2 ^ (n - 1) <= x)

\* index of the highest set bit of a # ZeroMag, bit 0 being the lowest
Msb(a) ==
    LET k == MaxOf({i \in 1..NumLimbs : a[i] # 0})
    IN  LimbBits * (k - 1) + BitLen(a[k]) - 1

Bit(a, n) == (a[(n \div LimbBits) + 1] \div (2 ^ (n % LimbBits))) % 2

\* some bit below bit n is set
LowNonZero(a, n) ==
    \E i \in 1..NumLimbs :
        LET lo == LimbBits * (i - 1)
        IN  IF lo + LimbBits <= n THEN a[i] # 0
            ELSE IF lo < n THEN a[i] % (2 ^ (n - lo)) # 0
            ELSE FALSE

\* a with the bits below bit n cleared
ClearLow(a, n) ==
    [i \in 1..NumLimbs |->
        LET lo == LimbBits * (i - 1)
        IN  IF lo + LimbBits <= n THEN 0
            ELSE IF lo < n THEN (a[i] \div (2 ^ (n - lo))) * (2 ^ (n - lo))
            ELSE a[i]]

Pow2Mag(n) ==
    [i \in 1..NumLimbs |->
        IF i = (n \div LimbBits) + 1 THEN 2 ^ (n % LimbBits) ELSE 0]

\* round-to-nearest, ties-to-even, to Significand bits: a is the exact
\* magnitude truncated to the format, sticky says that non-zero bits were
\* dropped below it
RoundMag(a, sticky) ==
    IF a = ZeroMag THEN a
    ELSE LET t == Msb(a)
         IN  IF t < Significand THEN a
             ELSE LET c == t - (Significand - 1)
                      guard == Bit(a, c - 1) = 1
                      rest == sticky \/ LowNonZero(a, c - 1)
                      odd == Bit(a, c) = 1
                  IN  IF guard /\ (rest \/ odd)
                      THEN MagAdd(ClearLow(a, c), Pow2Mag(c))
                      ELSE ClearLow(a, c)

Num(neg, mag) == [neg |-> neg /\ mag # ZeroMag, mag |-> mag]

\* the Number of an integer literal or integer-valued property
NumInt(n) == IF n < 0 THEN Num(TRUE, IntMag(-n)) ELSE Num(FALSE, IntMag(n))

RECURSIVE DivFrac(_, _, _)
\* the next n limbs of the expansion of r / b, highest first, and the remainder
DivFrac(r, b, n) ==
    IF n = 0 THEN [q |-> <<>>, r |-> r]
    ELSE LET d == DivFrac((r * LimbBase) % b, b, n - 1)
         IN  [q |-> d.q \o <<(r * LimbBase) \div b>>, r |-> d.r]

\* a / b for naturals a and b, 0 < b < 2 * LimbBase
NumDiv(a, b) ==
    LET d == DivFrac(a % b, b, FracLimbs)
        mag == d.q \o <<(a \div b) % LimbBase, (a \div b) \div LimbBase>>
    IN  Num(FALSE, RoundMag(mag, d.r # 0))

\* x * k for a Number x and a natural k < LimbBase
NumMulInt(x, k) == Num(x.neg, RoundMag(MagMulInt(x.mag, k), FALSE))

\* a with every bit moved one place down
MagHalf(a) ==
    [i \in 1..NumLimbs |->
        (a[i] \div 2) + (IF i < NumLimbs THEN (a[i + 1] % 2) * (LimbBase \div 2) ELSE 0)]

\* x * (k / 2) for a Number x and a natural k < LimbBase: the product with a
\* literal such as 1.5 that has one binary place
NumMulHalves(x, k) ==
    LET p == MagMulInt(x.mag, k)
    IN  Num(x.neg, RoundMag(MagHalf(p), p[1] % 2 = 1))

NumNeg(x) == Num(~x.neg, x.mag)

NumAdd(x, y) ==
    IF x.neg = y.neg THEN Num(x.neg, RoundMag(MagAdd(x.mag, y.mag), FALSE))
    ELSE IF MagCmp(x.mag, y.mag) >= 0
         THEN Num(x.neg, RoundMag(MagSub(x.mag, y.mag), FALSE))
         ELSE Num(y.neg, RoundMag(MagSub(y.mag, x.mag), FALSE))

NumSub(x, y) == NumAdd(x, NumNeg(y))

\* x < y
NumLess(x, y) ==
    IF x.neg /\ ~y.neg THEN TRUE
    ELSE IF ~x.neg /\ y.neg THEN FALSE
    ELSE IF x.neg THEN MagCmp(x.mag, y.mag) > 0
    ELSE MagCmp(x.mag, y.mag) < 0

MathMax(x, y) == IF NumLess(x, y) THEN y ELSE x
MathMin(x, y) == IF NumLess(y, x) THEN y ELSE x

IntPart(a) == a[FracLimbs + 1] + LimbBase * a[FracLimbs + 2]
HasFrac(a) == LowNonZero(a, LimbBits * FracLimbs)

\* Math.floor, as an integer
MathFloor(x) ==
    IF x.neg THEN (IF HasFrac(x.mag) THEN -(IntPart(x.mag) + 1) ELSE -IntPart(x.mag))
    ELSE IntPart(x.mag)

\* ToUint8Clamp truncating instead of rounding
ToUint8Truncate(x) ==
    IF x.neg THEN 0
    ELSE IF IntPart(x.mag) >= 255 THEN 255
    ELSE IntPart(x.mag)

\* the store of a Number into a Uint8ClampedArray element: clamp to 0..255,
\* round to the nearest integer, ties to even
ToUint8Clamp(x) ==
    IF x.neg THEN 0
    ELSE LET f == IntPart(x.mag)
             half == Bit(x.mag, LimbBits * FracLimbs - 1) = 1
             rest == LowNonZero(x.mag, LimbBits * FracLimbs - 1)
         IN  IF f >= 255 THEN 255
             ELSE IF half /\ (rest \/ f % 2 = 1) THEN f + 1
             ELSE f

\* ------------------------------------------------------------------------
\* modules/utils.js
\* ------------------------------------------------------------------------

\* clamp(value, min, max) on Numbers
clamp(value, min, max) == MathMax(min, MathMin(value, max))

\* clamp(value, min, max) on integers (the result of Math.floor)
clampInt(value, min, max) == MaxOf({min, MinOf({value, max})})

\* ------------------------------------------------------------------------
\* modules/image-core.js: resizeImageToBounds.  width and height are
\* Numbers that may stop being integers: Dim(n), Infinity or NaNDim.
\* ------------------------------------------------------------------------

Dim(n) == [inf |-> FALSE, nan |-> FALSE, val |-> n]
Infinity == [inf |-> TRUE, nan |-> FALSE, val |-> 0]
NaNDim == [inf |-> FALSE, nan |-> TRUE, val |-> 0]
IsInt(d) == ~d.inf /\ ~d.nan

\* Math.floor(edge * scaleFactor) with scaleFactor = bound / divisor
ScaleEdge(edge, bound, divisor) == MathFloor(NumMulInt(NumDiv(bound, divisor), edge))

\* 1. Scale down if longest edge > maxLongest
ScaleDown(width, height, maxLongest) ==
    IF MaxOf({width, height}) > maxLongest
    THEN [width |-> ScaleEdge(width, maxLongest, MaxOf({width, height})),
          height |-> ScaleEdge(height, maxLongest, MaxOf({width, height})),
          scaled |-> TRUE]
    ELSE [width |-> width, height |-> height, scaled |-> FALSE]

\* edge * scaleFactor for scaleFactor = minShortest / 0 = Infinity
TimesInfinity(edge) == IF edge = 0 THEN NaNDim ELSE Infinity

\* ScaleUp dividing by the longest edge (Math.max for Math.min in the factor)
ScaleUpByLongest(width, height, minShortest) ==
    IF MinOf({width, height}) < minShortest
    THEN IF MaxOf({width, height}) = 0
         THEN [width |-> TimesInfinity(width), height |-> TimesInfinity(height),
               scaled |-> TRUE, divByZero |-> TRUE]
         ELSE [width |-> Dim(ScaleEdge(width, minShortest, MaxOf({width, height}))),
               height |-> Dim(ScaleEdge(height, minShortest, MaxOf({width, height}))),
               scaled |-> TRUE, divByZero |-> FALSE]
    ELSE [width |-> Dim(width), height |-> Dim(height),
          scaled |-> FALSE, divByZero |-> FALSE]

\* 2. Scale up if shortest edge < minShortest
ScaleUp(width, height, minShortest) ==
    IF MinOf({width, height}) < minShortest
    THEN IF MinOf({width, height}) = 0
         THEN [width |-> TimesInfinity(width), height |-> TimesInfinity(height),
               scaled |-> TRUE, divByZero |-> TRUE]
         ELSE [width |-> Dim(ScaleEdge(width, minShortest, MinOf({width, height}))),
               height |-> Dim(ScaleEdge(height, minShortest, MinOf({width, height}))),
               scaled |-> TRUE, divByZero |-> FALSE]
    ELSE [width |-> Dim(width), height |-> Dim(height),
          scaled |-> FALSE, divByZero |-> FALSE]

\* the width and height resizeImageToBounds hands to the canvas
ResizedDims(img, maxLongest, minShortest) ==
    LET down == ScaleDown(img.width, img.height, maxLongest)
    IN  ScaleUp(down.width, down.height, minShortest)

\* getImageData(0, 0, width, height) throws for a zero or non-finite size
GetImageDataThrows(width, height) ==
    ~IsInt(width) \/ ~IsInt(height) \/ width.val = 0 \/ height.val = 0

\* ------------------------------------------------------------------------
\* modules/image-core.js: the tone stages.  A pixel buffer (ImageData.data,
\* a Uint8ClampedArray) is a sequence of bytes, four per pixel: R, G, B, A.
\* ------------------------------------------------------------------------

PixelCount(data) == Len(data) \div 4

\* the literals 0.2126, 0.7152, 0.0722, 0.5, 255 (or 255.0) and 0
Lit02126 == NumDiv(2126, 10000)
Lit07152 == NumDiv(7152, 10000)
Lit00722 == NumDiv(722, 10000)
\* a pivot of one quarter in place of one half
LitQuarter == NumDiv(1, 4)

LitHalf == NumDiv(1, 2)
Lit255 == NumInt(255)
Lit0 == NumInt(0)

\* GreyValue with the BT.601 weights 0.299, 0.587, 0.114
GreyValueBT601(r, g, b) ==
    ToUint8Clamp(NumAdd(NumAdd(NumMulInt(NumDiv(299, 1000), r),
                               NumMulInt(NumDiv(587, 1000), g)),
                        NumMulInt(NumDiv(114, 1000), b)))

\* avg of one pixel, as stored into a buffer element
GreyValue(r, g, b) ==
    ToUint8Clamp(NumAdd(NumAdd(NumMulInt(Lit02126, r), NumMulInt(Lit07152, g)),
                        NumMulInt(Lit00722, b)))

applyGreyscale(data) ==
    [i \in 1..Len(data) |->
        LET p == 4 * ((i - 1) \div 4)
        IN  IF i % 4 = 0 THEN data[i]
            ELSE GreyValue(data[p + 1], data[p + 2], data[p + 3])]

\* histogram[v]: the number of pixels whose channel 0 holds v
Histogram(data) ==
    [v \in 0..255 |-> Cardinality({k \in 1..PixelCount(data) : data[4 * k - 3] = v})]

\* while (minVal < 255 && histogram[minVal] === 0) minVal++, from 0: the
\* scan stops at the first occupied value, or at 255
ScanMin(histogram) == MinOf({v \in 0..255 : histogram[v] # 0 \/ v = 255})

\* while (maxVal > 0 && histogram[maxVal] === 0) maxVal--, from 255
ScanMax(histogram) == MaxOf({v \in 0..255 : histogram[v] # 0 \/ v = 0})

MinVal(data) == ScanMin(Histogram(data))
MaxVal(data) == ScanMax(Histogram(data))

\* the value stored for channel 0 by the stretch loop; for range = 0 the
\* factor 255 / range is Infinity and 0 * Infinity is NaN, stored as 0
StretchValue(v, minVal, range) ==
    IF range = 0 THEN 0
    ELSE ToUint8Clamp(clamp(NumMulInt(NumDiv(255, range), v - minVal), Lit0, Lit255))

\* Degenerate with > for >=
DegenerateStrict(minVal, maxVal) == minVal > maxVal

\* if (minVal >= maxVal) return imageData
Degenerate(minVal, maxVal) == minVal >= maxVal

\* StretchRange counting the values from minVal to maxVal
StretchRangeInclusive(minVal, maxVal) == maxVal - minVal + 1

\* const range = maxVal - minVal
StretchRange(minVal, maxVal) == maxVal - minVal

applyAutoContrast(data) ==
    LET minVal == MinVal(data)
        maxVal == MaxVal(data)
    IN  IF Degenerate(minVal, maxVal) THEN data
        ELSE [i \in 1..Len(data) |->
                IF i % 4 = 0 THEN data[i]
                ELSE StretchValue(data[4 * ((i - 1) \div 4) + 1], minVal,
                                  StretchRange(minVal, maxVal))]

\* MidtoneValue without the "+ 0.5" that moves the pivot back
MidtoneValueNoPivot(v, factor) ==
    LET val == NumSub(NumDiv(v, 255), LitHalf)
        newVal == NumMulInt(NumMulHalves(val, factor), 255)
    IN  ToUint8Clamp(clamp(newVal, Lit0, Lit255))

\* the value stored for channel 0 by applyMidtoneContrast; the factor is
\* given in halves (3 for 1.5)
MidtoneValue(v, factor) ==
    LET val == NumSub(NumDiv(v, 255), LitHalf)
        newVal == NumMulInt(NumAdd(NumMulHalves(val, factor), LitHalf), 255)
    IN  ToUint8Clamp(clamp(newVal, Lit0, Lit255))

\* applyMidtoneContrast without the copies into channels 1 and 2
applyMidtoneContrastRedOnly(data, factor) ==
    [i \in 1..Len(data) |->
        IF i % 4 = 1 THEN MidtoneValue(data[i], factor) ELSE data[i]]

applyMidtoneContrast(data, factor) ==
    [i \in 1..Len(data) |->
        IF i % 4 = 0 THEN data[i]
        ELSE MidtoneValue(data[4 * ((i - 1) \div 4) + 1], factor)]

\* ------------------------------------------------------------------------
\* modules/filters/duotone.js.  A colour component is what parseInt
\* returned: [nan |-> FALSE, val |-> n] or NaN.
\* ------------------------------------------------------------------------

NaN == [nan |-> TRUE, val |-> 0]
Comp(n) == [nan |-> FALSE, val |-> n]

\* DuotoneValue with alpha = pixelValue / 256
DuotoneValueBy256(pixelValue, dark, light) ==
    IF dark.nan \/ light.nan THEN 0
    ELSE LET alpha == NumDiv(pixelValue, 256)
             mix == NumAdd(NumMulInt(NumSub(NumInt(1), alpha), dark.val),
                           NumMulInt(alpha, light.val))
         IN  clampInt(MathFloor(mix), 0, 255)

\* clamp(Math.floor(dark * (1 - alpha) + light * alpha), 0, 255) as stored:
\* a NaN operand makes the sum NaN, which a buffer element stores as 0
DuotoneValue(pixelValue, dark, light) ==
    IF dark.nan \/ light.nan THEN 0
    ELSE LET alpha == NumDiv(pixelValue, 255)
             mix == NumAdd(NumMulInt(NumSub(NumInt(1), alpha), dark.val),
                           NumMulInt(alpha, light.val))
         IN  clampInt(MathFloor(mix), 0, 255)

\* applyDuotone writing all four channels of a pixel (alpha made opaque)
applyDuotoneOpaque(data, darkRgb, lightRgb) ==
    [i \in 1..Len(data) |->
        LET pixelValue == data[4 * ((i - 1) \div 4) + 1]
        IN  CASE i % 4 = 1 -> DuotoneValue(pixelValue, darkRgb.r, lightRgb.r)
              [] i % 4 = 2 -> DuotoneValue(pixelValue, darkRgb.g, lightRgb.g)
              [] i % 4 = 3 -> DuotoneValue(pixelValue, darkRgb.b, lightRgb.b)
              [] OTHER -> 255]

applyDuotone(data, darkRgb, lightRgb) ==
    [i \in 1..Len(data) |->
        LET pixelValue == data[4 * ((i - 1) \div 4) + 1]
        IN  CASE i % 4 = 1 -> DuotoneValue(pixelValue, darkRgb.r, lightRgb.r)
              [] i % 4 = 2 -> DuotoneValue(pixelValue, darkRgb.g, lightRgb.g)
              [] i % 4 = 3 -> DuotoneValue(pixelValue, darkRgb.b, lightRgb.b)
              [] OTHER -> data[i]]

\* ------------------------------------------------------------------------
\* Strings are sequences of one-character strings.
\* modules/utils.js: hexToRgb; main.js: hexRegex, normalizeHexForDisplay
\* ------------------------------------------------------------------------

DecDigits == {"0", "1", "2", "3", "4", "5", "6", "7", "8", "9"}
LowerHex == {"a", "b", "c", "d", "e", "f"}
UpperHex == {"A", "B", "C", "D", "E", "F"}
HexDigits == DecDigits \cup LowerHex \cup UpperHex

DigitValue(c) ==
    CASE c = "0" -> 0 [] c = "1" -> 1 [] c = "2" -> 2 [] c = "3" -> 3
      [] c = "4" -> 4 [] c = "5" -> 5 [] c = "6" -> 6 [] c = "7" -> 7
      [] c = "8" -> 8 [] c = "9" -> 9
      [] c \in {"a", "A"} -> 10 [] c \in {"b", "B"} -> 11
      [] c \in {"c", "C"} -> 12 [] c \in {"d", "D"} -> 13
      [] c \in {"e", "E"} -> 14 [] c \in {"f", "F"} -> 15

ToLowerChar(c) ==
    CASE c = "A" -> "a" [] c = "B" -> "b" [] c = "C" -> "c"
      [] c = "D" -> "d" [] c = "E" -> "e" [] c = "F" -> "f"
      [] OTHER -> c

toLowerCase(str) == [i \in 1..Len(str) |-> ToLowerChar(str[i])]

\* str.slice(start, end) for 0 <= start <= end
slice(str, start, end) ==
    SubSeq(str, start + 1, MinOf({end, Len(str)}))

RECURSIVE TrimStart(_)
TrimStart(str) ==
    IF str # <<>> /\ Head(str) = " " THEN TrimStart(Tail(str)) ELSE str

RECURSIVE TrimEnd(_)
TrimEnd(str) ==
    IF str # <<>> /\ str[Len(str)] = " " THEN TrimEnd(SubSeq(str, 1, Len(str) - 1))
    ELSE str

trim(str) == TrimEnd(TrimStart(str))

RECURSIVE HexPrefixValue(_, _)
\* the value of the longest prefix of hexadecimal digits of str after acc
HexPrefixValue(str, acc) ==
    IF str # <<>> /\ Head(str) \in HexDigits
    THEN HexPrefixValue(Tail(str), 16 * acc + DigitValue(Head(str)))
    ELSE acc

\* parseInt(str, 16) for a str of at most two characters, none a sign
parseInt16(str) ==
    LET t == TrimStart(str)
        digits == IF Len(t) >= 2 /\ t[1] = "0" /\ t[2] \in {"x", "X"}
                  THEN SubSeq(t, 3, Len(t)) ELSE t
    IN  IF digits = <<>> \/ Head(digits) \notin HexDigits THEN NaN
        ELSE Comp(HexPrefixValue(digits, 0))

\* hexToRgb slicing from the first character (no leading '#' skipped)
hexToRgbFromZero(hex) ==
    [r |-> parseInt16(slice(hex, 0, 2)),
     g |-> parseInt16(slice(hex, 2, 4)),
     b |-> parseInt16(slice(hex, 4, 6))]

hexToRgb(hex) ==
    [r |-> parseInt16(slice(hex, 1, 3)),
     g |-> parseInt16(slice(hex, 3, 5)),
     b |-> parseInt16(slice(hex, 5, 7))]

\* the capture group of hexRegex = /^#?([0-9a-fA-F]{3}|[0-9a-fA-F]{6})$/
HexBody(str) == IF str # <<>> /\ Head(str) = "#" THEN Tail(str) ELSE str

\* hexRegex.test(str)
HexRegexTest(str) ==
    /\ Len(HexBody(str)) \in {3, 6}
    /\ \A i \in 1..Len(HexBody(str)) : HexBody(str)[i] \in HexDigits

\* normalizeHexForDisplay(hex); null is <<"null">>
Null == <<"null">>
normalizeHexForDisplay(hex) ==
    IF hex = <<>> THEN Null
    ELSE IF HexRegexTest(hex) THEN <<"#">> \o toLowerCase(HexBody(hex))
    ELSE Null

DEFAULT_DARK_HEX == <<"#", "1", "b", "6", "0", "2", "f">>
DEFAULT_LIGHT_HEX == <<"#", "f", "7", "8", "4", "c", "5">>

\* ------------------------------------------------------------------------
\* Bounds and input sets
\* ------------------------------------------------------------------------

MAX_LONGEST_EDGE_PX == 1000
MIN_SHORTEST_EDGE_PX == 300

\* small widths, heights and edge bounds are enumerated up to these
MaxDim == 4
MaxEdge == 3

\* widths and heights beyond the small ones: the specification's examples
\* (2000x100, 5000x1) and edges whose scale factor is not a binary fraction
ExtremeDims == {50, 100, 291, 2000, 5000}
Dims == (1..MaxDim) \cup ExtremeDims
LongestBounds == (1..MaxEdge) \cup {MAX_LONGEST_EDGE_PX}
ShortestBounds == (1..MaxEdge) \cup {MIN_SHORTEST_EDGE_PX}

MIDTONE_CONTRAST_FACTOR == 3

\* a buffer given to a stage on its own has at most this many pixels
MaxPixels == 2

\* a photo has this many pixels
MaxPhotoPixels == 3

\* a stage is applied to its own output at most this many times
MaxApply == 2

\* RGBA pixels a decoded photo may hold
Pixels == {<<0, 41, 44, 128>>, <<200, 220, 240, 0>>}

RECURSIVE Flatten(_)
Flatten(pixels) == IF pixels = <<>> THEN <<>> ELSE Head(pixels) \o Flatten(Tail(pixels))

\* the pixel buffers of n pixels drawn from the set P
Buffers(P, n) == {Flatten(ps) : ps \in [1..n -> P]}

\* the pixels of a photo with three tones, a dark, a light and a middle one
PhotoRow == <<<<0, 41, 44, 128>>, <<200, 220, 240, 0>>, <<90, 100, 110, 255>>>>

\* a photo of several tones and a photo of a single tone
PhotoData ==
    {Flatten([k \in 1..MaxPhotoPixels |-> PhotoRow[((k - 1) % Len(PhotoRow)) + 1]]),
     Flatten([k \in 1..MaxPhotoPixels |-> PhotoRow[1]])}

\* natural sizes of decoded photos, 0x0 for a file that decodes to nothing
PhotoSizes == {<<2000, 100>>, <<5000, 1>>, <<0, 0>>}

\* originalImage after a load event: pixels is what drawing the photo into
\* the resized canvas and reading it back yields
Photos ==
    {[src |-> TRUE, complete |-> TRUE, naturalWidth |-> sz[1], naturalHeight |-> sz[2],
      pixels |-> IF sz[1] = 0 THEN <<>> ELSE d] : sz \in PhotoSizes, d \in PhotoData}

\* new Image()
BlankImage ==
    [src |-> FALSE, complete |-> TRUE, naturalWidth |-> 0, naturalHeight |-> 0,
     pixels |-> <<>>]

\* values of a colour picker, and strings typed into a colour text field
PickerValues == {DEFAULT_LIGHT_HEX}
TypedTexts == {<<" ", "A", "B", "C">>, <<"#", "1", "2">>}

\* inputs of the tone stages called on their own
GreyVals == {0, 1, 103, 128, 153, 255}
Alphas == {0, 255}
ChanVals == {0, 14, 41, 44, 128, 255}
GreyPixels == {<<v, v, v, a>> : v \in GreyVals, a \in Alphas}
GreyInputs == UNION {Buffers(GreyPixels, n) : n \in 0..MaxPixels}
ColourInputs ==
    {<<r, g, b, a>> : r \in ChanVals, g \in ChanVals, b \in ChanVals, a \in Alphas}
        \cup UNION {Buffers(Pixels, n) : n \in 0..MaxPixels}

\* the values of a buffer element
Bytes == 0..255

\* an RGB object whose components are the integers r, g, b
Rgb(r, g, b) == [r |-> Comp(r), g |-> Comp(g), b |-> Comp(b)]

\* the (dark, light) arguments given to applyDuotone on its own: black and
\* white, the default colours, and one colour for both ends
ColourPairs ==
    {<<Rgb(0, 0, 0), Rgb(255, 255, 255)>>,
     <<hexToRgb(DEFAULT_DARK_HEX), hexToRgb(DEFAULT_LIGHT_HEX)>>,
     <<hexToRgb(DEFAULT_DARK_HEX), hexToRgb(DEFAULT_DARK_HEX)>>}

\* a greyscale image of one opaque pixel of value v
GreyPixel(v) == <<v, v, v, 255>>

\* contrast factors are the halves 0.5, 1.0, 1.5, ... up to this many halves
MaxFactorHalves == 6
Factors == 1..MaxFactorHalves

\* digit pairs of the "#RRGGBB" strings given to hexToRgb on its own
HexPairs ==
    {<<"1", "b">>, <<"6", "0">>, <<"2", "f">>, <<"f", "7">>, <<"8", "4">>,
     <<"c", "5">>, <<"0", "0">>, <<"F", "F">>, <<"a", "B">>}
SixDigitHex == {<<"#">> \o rr \o gg \o bb : rr \in HexPairs, gg \in HexPairs, bb \in HexPairs}

\* files are selected in the upload control at most this many times
MaxSelections == 2

\* the photo the n-th selected file decodes to: each file has a size and
\* pixels of its own
FilePhoto(n) ==
    [src |-> TRUE, complete |-> TRUE, naturalWidth |-> 2000, naturalHeight |-> 100 * n,
     pixels |-> Flatten([k \in 1..MaxPhotoPixels |->
                            PhotoRow[((k + n - 2) % Len(PhotoRow)) + 1]])]

VARIABLES
    originalImage,          \* the shared Image element
    darkColorText,          \* darkColorTextInput.value
    lightColorText,         \* lightColorTextInput.value
    originalCanvas,         \* the three canvases: width, height, pixels
    normalDuotoneCanvas,
    invertedDuotoneCanvas,
    pc,                     \* position of the running handler in processImage
    heap,                   \* the ImageData objects of the current run
    loc,                    \* processImage's locals: indices into heap
    trace,                  \* the core calls of the current run, in order
    outcome,                \* how the last processImage call ended
    upload,                 \* the upload control's pending events
    rz,                     \* one call of resizeImageToBounds on its own
    sx                      \* one tone stage applied on its own

pipelineVars ==
    <<originalImage, darkColorText, lightColorText, originalCanvas,
      normalDuotoneCanvas, invertedDuotoneCanvas, pc, heap, loc, trace, outcome, upload>>

vars == <<pipelineVars, rz, sx>>

ClearedCanvas == [width |-> 0, height |-> 0, data |-> <<>>]

\* no file selected yet: count files selected so far, readers whose onload
\* is pending, the file whose decoding is pending (0 for none), pending
\* zero-delay timers; overtaken records that an onload was delivered before
\* that of an earlier selection, cancelled that the last change event had
\* no file
NoUploads ==
    [count |-> 0, readers |-> {}, decoding |-> 0, timers |-> 0,
     overtaken |-> FALSE, cancelled |-> FALSE]

NoLocals ==
    [resizedImageData |-> 0, greyscaleInputImageData |-> 0, greyscaleImageData |-> 0,
     autoContrastImageData |-> 0, finalContrastImageData |-> 0,
     normalDuotoneImageData |-> 0, invertedDuotoneImageData |-> 0]

\* the page after DOMContentLoaded: no photo; the text fields hold the
\* default colours
PipelineInit ==
    /\ originalImage = BlankImage
    /\ darkColorText = DEFAULT_DARK_HEX
    /\ lightColorText = DEFAULT_LIGHT_HEX
    /\ originalCanvas = ClearedCanvas
    /\ normalDuotoneCanvas = ClearedCanvas
    /\ invertedDuotoneCanvas = ClearedCanvas
    /\ pc = "idle"
    /\ heap = <<>>
    /\ loc = NoLocals
    /\ trace = <<>>
    /\ outcome = "none"
    /\ upload = NoUploads

\* the variables of the other specifications, at rest
PipelineOff ==
    /\ originalImage = BlankImage
    /\ darkColorText = DEFAULT_DARK_HEX
    /\ lightColorText = DEFAULT_LIGHT_HEX
    /\ originalCanvas = ClearedCanvas
    /\ normalDuotoneCanvas = ClearedCanvas
    /\ invertedDuotoneCanvas = ClearedCanvas
    /\ pc = "idle"
    /\ heap = <<>>
    /\ loc = NoLocals
    /\ trace = <<>>
    /\ outcome = "none"
    /\ upload = NoUploads

ResizeOff == rz = [pc |-> "off"]
StagesOff == sx = [fn |-> "off"]

\* ------------------------------------------------------------------------
\* resizeImageToBounds, step by step
\* ------------------------------------------------------------------------

ResizeInit ==
    \E w \in Dims, h \in Dims, maxLongest \in LongestBounds, minShortest \in ShortestBounds :
        rz = [pc |-> "entry",
              img |-> [width |-> w, height |-> h],
              maxLongest |-> maxLongest, minShortest |-> minShortest,
              width |-> Dim(w), height |-> Dim(h),
              mid |-> [width |-> w, height |-> h],
              scaledDown |-> FALSE, scaledUp |-> FALSE, divByZero |-> FALSE]
    /\ PipelineOff
    /\ StagesOff

ResizeScaleDown ==
    /\ rz.pc = "entry"
    /\ LET down == ScaleDown(rz.img.width, rz.img.height, rz.maxLongest)
       IN  rz' = [rz EXCEPT !.pc = "clamped",
                            !.width = Dim(down.width), !.height = Dim(down.height),
                            !.mid = [width |-> down.width, height |-> down.height],
                            !.scaledDown = down.scaled]
    /\ UNCHANGED <<pipelineVars, sx>>

ResizeScaleUp ==
    /\ rz.pc = "clamped"
    /\ LET up == ScaleUp(rz.width.val, rz.height.val, rz.minShortest)
       IN  rz' = [rz EXCEPT !.pc = "scaled",
                            !.width = up.width, !.height = up.height,
                            !.scaledUp = up.scaled, !.divByZero = up.divByZero]
    /\ UNCHANGED <<pipelineVars, sx>>

ResizeReturn ==
    /\ rz.pc = "scaled"
    /\ rz' = [rz EXCEPT !.pc = IF GetImageDataThrows(rz.width, rz.height)
                               THEN "threw" ELSE "returned"]
    /\ UNCHANGED <<pipelineVars, sx>>

ResizeNext == ResizeScaleDown \/ ResizeScaleUp \/ ResizeReturn

SpecResize == ResizeInit /\ [][ResizeNext]_vars

ResizeDone == rz.pc \in {"scaled", "threw", "returned"}

\* ------------------------------------------------------------------------
\* main.js: the event handlers and processImage
\* ------------------------------------------------------------------------

\* ProcessImageGuard without the test of the two colour strings
ProcessImageGuardNoHexCheck(image, darkHex, lightHex) ==
    IF ~image.src \/ ~image.complete \/ image.naturalWidth = 0 THEN "noImage"
    ELSE "run"

\* the two guards at the head of processImage
ProcessImageGuard(image, darkHex, lightHex) ==
    IF ~image.src \/ ~image.complete \/ image.naturalWidth = 0 THEN "noImage"
    ELSE IF ~HexRegexTest(darkHex) \/ ~HexRegexTest(lightHex) THEN "badHex"
    ELSE "run"

\* a call of processImage up to the end of its guards
EnterProcessImage(image, darkHex, lightHex) ==
    /\ pc' = IF ProcessImageGuard(image, darkHex, lightHex) = "run" THEN "resize" ELSE "idle"
    /\ outcome' = ProcessImageGuard(image, darkHex, lightHex)
    /\ heap' = <<>>
    /\ loc' = NoLocals
    /\ trace' = <<>>

\* a handler that returns without calling processImage; the locals of the
\* previous call are gone
NoProcessImage(result) ==
    /\ pc' = "idle"
    /\ outcome' = result
    /\ heap' = <<>>
    /\ loc' = NoLocals
    /\ trace' = <<>>

\* NewImageDataCopy handing back the source object itself (no copy made)
NewImageDataAlias(h, src) == [heap |-> h, id |-> src]

\* new ImageData(new Uint8ClampedArray(src.data), src.width, src.height):
\* the heap with the new object, and its index
NewImageDataCopy(h, src) == [heap |-> Append(h, h[src]), id |-> Len(h) + 1]

\* drawImageDataToCanvas: putImageData copies the pixels into the canvas
drawImageDataToCanvas(imageData) ==
    [width |-> imageData.width, height |-> imageData.height, data |-> imageData.data]

Call(fn, buf, input, output, args) ==
    [fn |-> fn, buf |-> buf, input |-> input, output |-> output, args |-> args]

\* the load event of originalImage for a newly decoded photo: handleImageLoad
HandleImageLoad ==
    /\ pc = "idle"
    /\ \E photo \in Photos :
        /\ originalImage' = photo
        /\ originalCanvas' = ClearedCanvas
        /\ normalDuotoneCanvas' = ClearedCanvas
        /\ invertedDuotoneCanvas' = ClearedCanvas
        /\ IF photo.naturalWidth = 0
           THEN NoProcessImage("imageError")
           ELSE EnterProcessImage(photo, darkColorText, lightColorText)
    /\ UNCHANGED <<darkColorText, lightColorText, rz, sx, upload>>

\* input event of the dark colour picker
DarkColorInput ==
    /\ pc = "idle"
    /\ \E value \in PickerValues :
        /\ darkColorText' = value
        /\ EnterProcessImage(originalImage, value, lightColorText)
    /\ UNCHANGED <<originalImage, lightColorText, originalCanvas, normalDuotoneCanvas,
                   invertedDuotoneCanvas, rz, sx, upload>>

\* input event of the light colour picker
LightColorInput ==
    /\ pc = "idle"
    /\ \E value \in PickerValues :
        /\ lightColorText' = value
        /\ EnterProcessImage(originalImage, darkColorText, value)
    /\ UNCHANGED <<originalImage, darkColorText, originalCanvas, normalDuotoneCanvas,
                   invertedDuotoneCanvas, rz, sx, upload>>

\* input event of the dark colour text field, which then holds typed
DarkColorTextInput ==
    /\ pc = "idle"
    /\ \E typed \in TypedTexts :
        IF normalizeHexForDisplay(trim(typed)) # Null
        THEN /\ darkColorText' = normalizeHexForDisplay(trim(typed))
             /\ EnterProcessImage(originalImage, normalizeHexForDisplay(trim(typed)),
                                  lightColorText)
        ELSE /\ darkColorText' = typed
             /\ NoProcessImage("notCalled")
    /\ UNCHANGED <<originalImage, lightColorText, originalCanvas, normalDuotoneCanvas,
                   invertedDuotoneCanvas, rz, sx, upload>>

\* input event of the light colour text field
LightColorTextInput ==
    /\ pc = "idle"
    /\ \E typed \in TypedTexts :
        IF normalizeHexForDisplay(trim(typed)) # Null
        THEN /\ lightColorText' = normalizeHexForDisplay(trim(typed))
             /\ EnterProcessImage(originalImage, darkColorText,
                                  normalizeHexForDisplay(trim(typed)))
        ELSE /\ lightColorText' = typed
             /\ NoProcessImage("notCalled")
    /\ UNCHANGED <<originalImage, darkColorText, originalCanvas, normalDuotoneCanvas,
                   invertedDuotoneCanvas, rz, sx, upload>>

\* click on the reset button
ResetColorsClick ==
    /\ pc = "idle"
    /\ darkColorText' = DEFAULT_DARK_HEX
    /\ lightColorText' = DEFAULT_LIGHT_HEX
    /\ EnterProcessImage(originalImage, DEFAULT_DARK_HEX, DEFAULT_LIGHT_HEX)
    /\ UNCHANGED <<originalImage, originalCanvas, normalDuotoneCanvas,
                   invertedDuotoneCanvas, rz, sx, upload>>

\* Step 1: resizeImageToBounds and the draw into originalCanvas; a thrown
\* getImageData ends the handler
StepResize ==
    /\ pc = "resize"
    /\ LET dims == ResizedDims([width |-> originalImage.naturalWidth,
                                height |-> originalImage.naturalHeight],
                               MAX_LONGEST_EDGE_PX, MIN_SHORTEST_EDGE_PX)
       IN  IF GetImageDataThrows(dims.width, dims.height)
           THEN /\ pc' = "idle"
                /\ outcome' = "threw"
                /\ UNCHANGED <<heap, loc, trace, originalCanvas>>
           ELSE LET resized == [width |-> dims.width.val, height |-> dims.height.val,
                                data |-> originalImage.pixels]
                IN  /\ heap' = <<resized>>
                    /\ loc' = [loc EXCEPT !.resizedImageData = 1]
                    /\ trace' = <<Call("resizeImageToBounds", 1, <<>>, resized.data, <<>>)>>
                    /\ originalCanvas' = drawImageDataToCanvas(resized)
                    /\ pc' = "greyscale"
                    /\ UNCHANGED outcome
    /\ UNCHANGED <<originalImage, darkColorText, lightColorText, normalDuotoneCanvas,
                   invertedDuotoneCanvas, rz, sx, upload>>

\* the copy of the resized data and Step 2: applyGreyscale on the copy
StepGreyscale ==
    /\ pc = "greyscale"
    /\ LET c == NewImageDataCopy(heap, loc.resizedImageData)
           input == c.heap[c.id].data
       IN  /\ heap' = [c.heap EXCEPT ![c.id].data = applyGreyscale(input)]
           /\ loc' = [loc EXCEPT !.greyscaleInputImageData = c.id,
                                 !.greyscaleImageData = c.id]
           /\ trace' = Append(trace, Call("applyGreyscale", c.id, input,
                                          applyGreyscale(input), <<>>))
    /\ pc' = "autoContrast"
    /\ UNCHANGED <<originalImage, darkColorText, lightColorText, originalCanvas,
                   normalDuotoneCanvas, invertedDuotoneCanvas, outcome, rz, sx, upload>>

\* Step 3a: applyAutoContrast on a copy of the greyscale data
StepAutoContrast ==
    /\ pc = "autoContrast"
    /\ LET c == NewImageDataCopy(heap, loc.greyscaleImageData)
           input == c.heap[c.id].data
       IN  /\ heap' = [c.heap EXCEPT ![c.id].data = applyAutoContrast(input)]
           /\ loc' = [loc EXCEPT !.autoContrastImageData = c.id]
           /\ trace' = Append(trace, Call("applyAutoContrast", c.id, input,
                                          applyAutoContrast(input), <<>>))
    /\ pc' = "midtone"
    /\ UNCHANGED <<originalImage, darkColorText, lightColorText, originalCanvas,
                   normalDuotoneCanvas, invertedDuotoneCanvas, outcome, rz, sx, upload>>

\* Step 3b: applyMidtoneContrast on a copy of the stretched data
StepMidtoneContrast ==
    /\ pc = "midtone"
    /\ LET c == NewImageDataCopy(heap, loc.autoContrastImageData)
           input == c.heap[c.id].data
           output == applyMidtoneContrast(input, MIDTONE_CONTRAST_FACTOR)
       IN  /\ heap' = [c.heap EXCEPT ![c.id].data = output]
           /\ loc' = [loc EXCEPT !.finalContrastImageData = c.id]
           /\ trace' = Append(trace, Call("applyMidtoneContrast", c.id, input, output, <<>>))
    /\ pc' = "duotoneNormal"
    /\ UNCHANGED <<originalImage, darkColorText, lightColorText, originalCanvas,
                   normalDuotoneCanvas, invertedDuotoneCanvas, outcome, rz, sx, upload>>

\* Step 4: the normal duotone of a copy of the toned data, drawn
StepDuotoneNormal ==
    /\ pc = "duotoneNormal"
    /\ LET c == NewImageDataCopy(heap, loc.finalContrastImageData)
           input == c.heap[c.id].data
           darkRgbNormal == hexToRgb(darkColorText)
           lightRgbNormal == hexToRgb(lightColorText)
           output == applyDuotone(input, darkRgbNormal, lightRgbNormal)
       IN  /\ heap' = [c.heap EXCEPT ![c.id].data = output]
           /\ loc' = [loc EXCEPT !.normalDuotoneImageData = c.id]
           /\ trace' = Append(trace, Call("applyDuotone", c.id, input, output,
                                          <<darkRgbNormal, lightRgbNormal>>))
           /\ normalDuotoneCanvas' = drawImageDataToCanvas(heap'[c.id])
    /\ pc' = "duotoneInverted"
    /\ UNCHANGED <<originalImage, darkColorText, lightColorText, originalCanvas,
                   invertedDuotoneCanvas, outcome, rz, sx, upload>>

\* Step 5: the inverted duotone of a copy of the toned data, drawn
StepDuotoneInverted ==
    /\ pc = "duotoneInverted"
    /\ LET c == NewImageDataCopy(heap, loc.finalContrastImageData)
           input == c.heap[c.id].data
           darkRgbInverted == hexToRgb(lightColorText)
           lightRgbInverted == hexToRgb(darkColorText)
           output == applyDuotone(input, darkRgbInverted, lightRgbInverted)
       IN  /\ heap' = [c.heap EXCEPT ![c.id].data = output]
           /\ loc' = [loc EXCEPT !.invertedDuotoneImageData = c.id]
           /\ trace' = Append(trace, Call("applyDuotone", c.id, input, output,
                                          <<darkRgbInverted, lightRgbInverted>>))
           /\ invertedDuotoneCanvas' = drawImageDataToCanvas(heap'[c.id])
    /\ pc' = "idle"
    /\ outcome' = "done"
    /\ UNCHANGED <<originalImage, darkColorText, lightColorText, originalCanvas,
                   normalDuotoneCanvas, rz, sx, upload>>

Init == PipelineInit /\ ResizeOff /\ StagesOff

Next ==
    \/ HandleImageLoad
    \/ DarkColorInput
    \/ LightColorInput
    \/ DarkColorTextInput
    \/ LightColorTextInput
    \/ ResetColorsClick
    \/ StepResize
    \/ StepGreyscale
    \/ StepAutoContrast
    \/ StepMidtoneContrast
    \/ StepDuotoneNormal
    \/ StepDuotoneInverted

Spec == Init /\ [][Next]_vars

\* ------------------------------------------------------------------------
\* main.js: the upload control.  Each selection starts a FileReader; its
\* onload sets originalImage.src and starts a zero-delay timer; the decoded
\* image fires the load event.  Every handler runs to completion, and the
\* pending events are delivered in any order.
\* ------------------------------------------------------------------------

\* the body of handleImageLoad for the image as it will be
HandleLoaded(image) ==
    /\ originalCanvas' = ClearedCanvas
    /\ normalDuotoneCanvas' = ClearedCanvas
    /\ invertedDuotoneCanvas' = ClearedCanvas
    /\ IF image.naturalWidth = 0
       THEN NoProcessImage("imageError")
       ELSE EnterProcessImage(image, darkColorText, lightColorText)

\* change event with a file: a new FileReader starts reading it
UploadChange ==
    /\ pc = "idle"
    /\ upload.count < MaxSelections
    /\ upload' = [upload EXCEPT !.count = @ + 1,
                                !.readers = @ \cup {upload.count + 1},
                                !.cancelled = FALSE]
    /\ UNCHANGED <<originalImage, darkColorText, lightColorText, originalCanvas,
                   normalDuotoneCanvas, invertedDuotoneCanvas, pc, heap, loc, trace,
                   outcome, rz, sx>>

\* change event without a file (dialog cancelled): the canvases are cleared
UploadCancel ==
    /\ pc = "idle"
    /\ upload.count > 0
    /\ ~upload.cancelled
    /\ upload' = [upload EXCEPT !.cancelled = TRUE]
    /\ originalCanvas' = ClearedCanvas
    /\ normalDuotoneCanvas' = ClearedCanvas
    /\ invertedDuotoneCanvas' = ClearedCanvas
    /\ NoProcessImage("notCalled")
    /\ UNCHANGED <<originalImage, darkColorText, lightColorText, rz, sx>>

\* reader.onload of the n-th selection: originalImage.src is set, which
\* drops a decoding still pending and makes the image incomplete, and the
\* zero-delay timer is started
ReaderOnload ==
    /\ pc = "idle"
    /\ \E n \in upload.readers :
        /\ upload' = [upload EXCEPT !.readers = @ \ {n},
                                    !.decoding = n,
                                    !.timers = @ + 1,
                                    !.overtaken = @ \/ \E m \in upload.readers : m < n]
        /\ originalImage' = [originalImage EXCEPT !.src = TRUE, !.complete = FALSE]
    /\ UNCHANGED <<darkColorText, lightColorText, originalCanvas, normalDuotoneCanvas,
                   invertedDuotoneCanvas, pc, heap, loc, trace, outcome, rz, sx>>

\* the load event of originalImage: the pending file is decoded, and
\* handleImageLoad runs
ImageLoadEvent ==
    /\ pc = "idle"
    /\ upload.decoding # 0
    /\ originalImage' = FilePhoto(upload.decoding)
    /\ upload' = [upload EXCEPT !.decoding = 0]
    /\ HandleLoaded(FilePhoto(upload.decoding))
    /\ UNCHANGED <<darkColorText, lightColorText, rz, sx>>

\* the zero-delay timer started by reader.onload
TimeoutCheck ==
    /\ pc = "idle"
    /\ upload.timers > 0
    /\ upload' = [upload EXCEPT !.timers = @ - 1]
    /\ IF originalImage.complete
       THEN HandleLoaded(originalImage)
       ELSE UNCHANGED <<originalCanvas, normalDuotoneCanvas, invertedDuotoneCanvas,
                        pc, heap, loc, trace, outcome>>
    /\ UNCHANGED <<originalImage, darkColorText, lightColorText, rz, sx>>

UploadInit == PipelineInit /\ ResizeOff /\ StagesOff

UploadNext ==
    \/ UploadChange
    \/ UploadCancel
    \/ ReaderOnload
    \/ ImageLoadEvent
    \/ TimeoutCheck
    \/ StepResize
    \/ StepGreyscale
    \/ StepAutoContrast
    \/ StepMidtoneContrast
    \/ StepDuotoneNormal
    \/ StepDuotoneInverted

SpecUpload == UploadInit /\ [][UploadNext]_vars

\* ------------------------------------------------------------------------
\* applyDuotone on its own: the call with (dark, light) on an image, and the
\* call with the two colours exchanged on the image with every grey value v
\* replaced by 255 - v
\* ------------------------------------------------------------------------

DuotoneInit ==
    /\ \E v \in Bytes, pair \in ColourPairs :
        sx = [fn |-> "applyDuotone", data |-> GreyPixel(v), dark |-> pair[1],
              light |-> pair[2], normal |-> <<>>, swapped |-> <<>>]
    /\ PipelineOff
    /\ ResizeOff

Reflect(data) == [i \in 1..Len(data) |-> IF i % 4 = 0 THEN data[i] ELSE 255 - data[i]]

StageDuotone ==
    /\ sx.fn = "applyDuotone"
    /\ sx.normal = <<>>
    /\ sx' = [sx EXCEPT !.normal = <<applyDuotone(sx.data, sx.dark, sx.light)>>]
    /\ UNCHANGED <<pipelineVars, rz>>

StageDuotoneSwapped ==
    /\ sx.fn = "applyDuotone"
    /\ sx.swapped = <<>>
    /\ sx' = [sx EXCEPT !.swapped = <<applyDuotone(Reflect(sx.data), sx.light, sx.dark)>>]
    /\ UNCHANGED <<pipelineVars, rz>>

DuotoneNext == StageDuotone \/ StageDuotoneSwapped

SpecDuotone == DuotoneInit /\ [][DuotoneNext]_vars

\* ------------------------------------------------------------------------
\* applyMidtoneContrast on its own, for every grey value and bounded factors
\* ------------------------------------------------------------------------

MidtoneInit ==
    /\ \E v \in Bytes, factor \in Factors :
        sx = [fn |-> "applyMidtoneContrast", data |-> GreyPixel(v), factor |-> factor,
              result |-> <<>>]
    /\ PipelineOff
    /\ ResizeOff

StageMidtoneContrast ==
    /\ sx.fn = "applyMidtoneContrast"
    /\ sx.result = <<>>
    /\ sx' = [sx EXCEPT !.result = <<applyMidtoneContrast(sx.data, sx.factor)>>]
    /\ UNCHANGED <<pipelineVars, rz>>

MidtoneNext == StageMidtoneContrast

SpecMidtone == MidtoneInit /\ [][MidtoneNext]_vars

\* ------------------------------------------------------------------------
\* hexToRgb on its own, for "#RRGGBB" strings
\* ------------------------------------------------------------------------

HexInit ==
    /\ \E hex \in SixDigitHex : sx = [fn |-> "hexToRgb", hex |-> hex, result |-> <<>>]
    /\ PipelineOff
    /\ ResizeOff

StageHexToRgb ==
    /\ sx.fn = "hexToRgb"
    /\ sx.result = <<>>
    /\ sx' = [sx EXCEPT !.result = <<hexToRgb(sx.hex)>>]
    /\ UNCHANGED <<pipelineVars, rz>>

HexNext == StageHexToRgb

SpecHex == HexInit /\ [][HexNext]_vars

\* ------------------------------------------------------------------------
\* the tone stages applied on their own, repeatedly, to bounded inputs
\* ------------------------------------------------------------------------

StagesInit ==
    /\ \/ \E data \in ColourInputs : sx = [fn |-> "applyGreyscale", results |-> <<data>>]
       \/ \E data \in GreyInputs : sx = [fn |-> "applyAutoContrast", results |-> <<data>>]
    /\ PipelineOff
    /\ ResizeOff

Last(seq) == seq[Len(seq)]

StageGreyscale ==
    /\ sx.fn = "applyGreyscale"
    /\ Len(sx.results) <= MaxApply
    /\ sx' = [sx EXCEPT !.results = Append(@, applyGreyscale(Last(@)))]
    /\ UNCHANGED <<pipelineVars, rz>>

StageAutoContrast ==
    /\ sx.fn = "applyAutoContrast"
    /\ Len(sx.results) <= MaxApply
    /\ sx' = [sx EXCEPT !.results = Append(@, applyAutoContrast(Last(@)))]
    /\ UNCHANGED <<pipelineVars, rz>>

StagesNext == StageGreyscale \/ StageAutoContrast

SpecStages == StagesInit /\ [][StagesNext]_vars

\* ------------------------------------------------------------------------
\* Properties
\* ------------------------------------------------------------------------

\* a dimension compared as JavaScript compares Numbers: NaN fails every
\* comparison, Infinity exceeds every integer
DimAtLeast(d, n) == ~d.nan /\ (d.inf \/ d.val >= n)
DimAtMost(d, n) == IsInt(d) /\ d.val <= n

\* C1: for every image with positive integer width and height and every pair
\* of bounds, the computed dimensions satisfy min(width', height') >=
\* minShortest - 1 and (max(width', height') <= maxLongest or the second,
\* shortest-edge scaling step was taken).
C1_ResizeWithinBounds ==
    ResizeDone =>
        /\ DimAtLeast(rz.width, rz.minShortest - 1)
        /\ DimAtLeast(rz.height, rz.minShortest - 1)
        /\ \/ DimAtMost(rz.width, rz.maxLongest) /\ DimAtMost(rz.height, rz.maxLongest)
           \/ rz.scaledUp

\* The bounds of C1 hold in every call that does not divide by a zero edge.
ResizeWithinBoundsUnlessZeroEdge ==
    (ResizeDone /\ ~rz.divByZero) =>
        /\ DimAtLeast(rz.width, rz.minShortest - 1)
        /\ DimAtLeast(rz.height, rz.minShortest - 1)
        /\ \/ DimAtMost(rz.width, rz.maxLongest) /\ DimAtMost(rz.height, rz.maxLongest)
           \/ rz.scaledUp

\* C2: for every image with width > 0 and height > 0, resizeImageToBounds
\* never divides by a zero shortest or longest edge, and the width and
\* height it computes are both positive integers.
C2_ResizeNoZeroDivide ==
    ResizeDone =>
        /\ ~rz.divByZero
        /\ IsInt(rz.width) /\ rz.width.val > 0
        /\ IsInt(rz.height) /\ rz.height.val > 0

\* n is the floor of edge * bound / divisor, or one less where the quotient
\* is an integer that the rounded product edge * (bound / divisor) falls
\* short of
FlooredScale(n, edge, bound, divisor) ==
    /\ n * divisor <= edge * bound
    /\ edge * bound <= (n + 1) * divisor

StageOrder ==
    <<"resizeImageToBounds", "applyGreyscale", "applyAutoContrast",
      "applyMidtoneContrast", "applyDuotone", "applyDuotone">>

\* within a run, a step leaves every ImageData object that exists as it is
StepKeepsBuffers ==
    pc # "idle" =>
        /\ Len(heap') >= Len(heap)
        /\ \A id \in 1..Len(heap) : heap'[id] = heap[id]

\* each call worked on an object of its own, whose pixels were those the
\* previous stage returned; the resized object still holds what the resize
\* returned, and both duotone calls read the same pixels
OwnCopies ==
    /\ \A k \in 1..Len(trace) : trace[k].buf = k /\ heap[k].data = trace[k].output
    /\ \A k \in 2..Len(trace) :
        IF k = 6 THEN trace[k].input = trace[4].output /\ trace[k].input = trace[5].input
        ELSE trace[k].input = trace[k - 1].output
    /\ loc.resizedImageData # 0 =>
        /\ heap[loc.resizedImageData].data = trace[1].output
        /\ originalCanvas.data = trace[1].output
        /\ heap[loc.resizedImageData].data = originalImage.pixels

\* C4: in one pipeline run every stage works on its own copy of the previous
\* stage's output, so no buffer is changed after the stage that produced it
\* returns: the resized buffer is byte-identical after greyscale,
\* auto-contrast, midtone contrast and both duotone calls, and the toned
\* buffer read by the inverted duotone call is byte-identical to the one
\* the normal call read.
C4_StagesOwnCopies == [][StepKeepsBuffers /\ OwnCopies']_vars

\* a finished run in which greyscale, the tone stages and the normal duotone
\* each changed the pixels they were given
C4_Witness ==
    /\ pc = "idle" /\ outcome = "done" /\ Len(trace) = 6
    /\ \A k \in 2..5 : trace[k].output # trace[k].input
    /\ heap[loc.resizedImageData].data # heap[loc.greyscaleImageData].data
    /\ heap[loc.finalContrastImageData].data # heap[loc.normalDuotoneImageData].data

\* the stages of a whole run, and what the two canvases hold after it
RunInOrder ==
    /\ [k \in 1..Len(trace) |-> trace[k].fn] = StageOrder
    /\ normalDuotoneCanvas.data =
         applyDuotone(heap[loc.finalContrastImageData].data,
                      hexToRgb(darkColorText), hexToRgb(lightColorText))
    /\ invertedDuotoneCanvas.data =
         applyDuotone(heap[loc.finalContrastImageData].data,
                      hexToRgb(lightColorText), hexToRgb(darkColorText))
    /\ trace[5].args = <<hexToRgb(darkColorText), hexToRgb(lightColorText)>>
    /\ trace[6].args = <<trace[5].args[2], trace[5].args[1]>>

\* C5: every pipeline run that passes its guards executes the stages in the
\* order resize, greyscale, auto-contrast, midtone contrast, normal duotone,
\* inverted duotone, and its outputs are normal = Duotone(toned, dark, light)
\* and inverted = Duotone(toned, light, dark) for the same toned buffer.
C5_PipelineOrder ==
    (pc = "idle" /\ outcome \in {"done", "threw"}) => RunInOrder

\* The order and outputs of C5 hold of every run that resizeImageToBounds
\* does not end with an exception, and of every prefix of a run.
PipelineOrderUnlessThrown ==
    /\ (pc = "idle" /\ outcome = "done") => RunInOrder
    /\ \A k \in 1..Len(trace) : trace[k].fn = StageOrder[k]

AlphaKept(input, output) ==
    /\ Len(output) = Len(input)
    /\ \A k \in 1..PixelCount(input) : output[4 * k] = input[4 * k]

\* C6: for every image and every stage (applyGreyscale, applyAutoContrast,
\* applyMidtoneContrast, applyDuotone) the alpha byte of every pixel after
\* the stage equals its value before, and the buffer length is unchanged.
C6_AlphaUntouched ==
    \A k \in 1..Len(trace) :
        trace[k].fn # "resizeImageToBounds" => AlphaKept(trace[k].input, trace[k].output)

\* a finished run over pixels that are not opaque, every stage having
\* changed a colour channel
C6_Witness ==
    /\ outcome = "done" /\ Len(trace) = 6
    /\ \E k \in 1..PixelCount(trace[1].output) : trace[1].output[4 * k] \notin {0, 255}
    /\ \A k \in 2..6 : trace[k].output # trace[k].input

\* channel-0 values that occur in a buffer
Occupied(data) == {data[4 * k - 3] : k \in 1..PixelCount(data)}

AutoContrastApplied(n) == sx.fn = "applyAutoContrast" /\ Len(sx.results) > n
GreyscaleApplied(n) == sx.fn = "applyGreyscale" /\ Len(sx.results) > n

\* C7: applyAutoContrast returns the buffer byte-identical to its input
\* whenever the smallest occupied channel-0 value is >= the largest: for
\* every image whose pixels share one channel-0 value and for the empty
\* image.
C7_FlatImageUnchanged ==
    (AutoContrastApplied(1) /\ Cardinality(Occupied(sx.results[1])) <= 1)
        => sx.results[2] = sx.results[1]

\* the stage applied to two pixels that both hold 128
C7_Witness ==
    /\ AutoContrastApplied(1)
    /\ PixelCount(sx.results[1]) = 2
    /\ Occupied(sx.results[1]) = {128}

\* C8: for every greyscale image with at least two distinct channel-0
\* values, after applyAutoContrast every pixel that held the minimum holds
\* 0, every pixel that held the maximum holds 255, and all values lie in
\* 0..255, so the occupied range of the result is exactly [0, 255].
C8_StretchReachesExtremes ==
    (AutoContrastApplied(1) /\ Cardinality(Occupied(sx.results[1])) >= 2) =>
        LET input == sx.results[1]
            output == sx.results[2]
        IN  /\ Len(output) = Len(input)
            /\ \A i \in 1..Len(output) : output[i] \in 0..255
            /\ \A k \in 1..PixelCount(input) :
                /\ input[4 * k - 3] = MinOf(Occupied(input)) => output[4 * k - 3] = 0
                /\ input[4 * k - 3] = MaxOf(Occupied(input)) => output[4 * k - 3] = 255
            /\ MinOf(Occupied(output)) = 0
            /\ MaxOf(Occupied(output)) = 255

\* the stage applied to an image holding 128 and 153: the stretched maximum
\* 25 * (255 / 25) is below 255 before it is stored
C8_Witness ==
    /\ AutoContrastApplied(1)
    /\ Occupied(sx.results[1]) = {128, 153}
    /\ Occupied(sx.results[2]) = {0, 255}

\* C9: applyAutoContrast is idempotent on its own output: for every
\* greyscale image x, applyAutoContrast(applyAutoContrast(x)) equals
\* applyAutoContrast(x) pixel for pixel.
C9_AutoContrastIdempotent ==
    AutoContrastApplied(2) => sx.results[3] = sx.results[2]

\* the stage applied twice, the first application having stretched
C9_Witness ==
    /\ AutoContrastApplied(2)
    /\ sx.results[2] # sx.results[1]

\* v is 0.2126 r + 0.7152 g + 0.0722 b rounded to an integer
IsLuma(v, r, g, b) ==
    /\ 10000 * v - 5000 <= 2126 * r + 7152 * g + 722 * b
    /\ 2126 * r + 7152 * g + 722 * b <= 10000 * v + 5000

\* C10: applyGreyscale is idempotent: for every RGBA image x,
\* applyGreyscale(applyGreyscale(x)) equals applyGreyscale(x) byte for byte,
\* each application setting R = G = B to the stored value of
\* 0.2126 R + 0.7152 G + 0.0722 B.
C10_GreyscaleIdempotent ==
    /\ GreyscaleApplied(1) =>
        \A k \in 1..PixelCount(sx.results[1]) :
            LET input == sx.results[1]
                output == sx.results[2]
            IN  /\ output[4 * k - 3] = output[4 * k - 2]
                /\ output[4 * k - 2] = output[4 * k - 1]
                /\ IsLuma(output[4 * k - 3], input[4 * k - 3], input[4 * k - 2],
                          input[4 * k - 1])
    /\ GreyscaleApplied(2) => sx.results[3] = sx.results[2]

\* the stage applied twice to a coloured pixel
C10_Witness ==
    /\ GreyscaleApplied(2)
    /\ sx.results[2] # sx.results[1]
    /\ sx.results[1][1] # sx.results[1][2]

DuotoneDone == sx.fn = "applyDuotone" /\ sx.normal # <<>>
DuotoneSwappedDone == sx.fn = "applyDuotone" /\ sx.swapped # <<>>

\* C11: applyDuotone with dark = (0,0,0) and light = (255,255,255) returns
\* every greyscale pixel of value v as R = G = B = v with its alpha: the
\* output equals the input exactly, for every v in 0..255
C11_BlackWhiteIdentity ==
    (DuotoneDone /\ sx.dark = Rgb(0, 0, 0) /\ sx.light = Rgb(255, 255, 255))
        => sx.normal[1] = sx.data

C11_Witness ==
    /\ DuotoneDone /\ sx.dark = Rgb(0, 0, 0) /\ sx.light = Rgb(255, 255, 255)
    /\ sx.data[1] = 254
    /\ sx.normal[1] = sx.data

\* C12: the colour applyDuotone gives to value v with (dark = A, light = B)
\* equals the colour it gives to value 255 - v with (dark = B, light = A)
C12_SwapReflects ==
    (DuotoneDone /\ DuotoneSwappedDone)
        => SubSeq(sx.normal[1], 1, 3) = SubSeq(sx.swapped[1], 1, 3)

\* the difference of C12 is at most one level per channel
SwapReflectsWithinOne ==
    (DuotoneDone /\ DuotoneSwappedDone)
        => \A i \in 1..3 : sx.normal[1][i] - sx.swapped[1][i] \in {-1, 0, 1}

MidtoneDone == sx.fn = "applyMidtoneContrast" /\ sx.result # <<>>

\* C13: applyMidtoneContrast with factor 1.0 changes no pixel by more than
\* one level: for every grey value v the stored result r has |r - v| <= 1
C13_UnitFactorWithinOne ==
    (MidtoneDone /\ sx.factor = 2)
        => /\ \A i \in 1..3 : sx.result[1][i] - sx.data[i] \in {-1, 0, 1}
           /\ sx.result[1][4] = sx.data[4]

C13_Witness ==
    /\ MidtoneDone /\ sx.factor = 2
    /\ sx.data[1] = 103
    /\ sx.result[1][1] - sx.data[1] \in {-1, 0, 1}

\* v / 255 lies more than 0.5 / factor below (above) 0.5, the factor being
\* halves / 2
BelowSaturation(v, halves) == 2 * halves * v < 255 * (halves - 2)
AboveSaturation(v, halves) == 2 * halves * v > 255 * (halves + 2)

\* C14: for every factor > 0 and grey value v applyMidtoneContrast stores a
\* value in 0..255; it stores 0 when v / 255 is more than 0.5 / factor below
\* 0.5 and 255 when it is more than 0.5 / factor above 0.5; for the factor
\* 1.5 every v <= 42 gives 0 and every v >= 213 gives 255
C14_MidtoneSaturates ==
    MidtoneDone =>
        LET v == sx.data[1]
            r == sx.result[1][1]
        IN  /\ r \in Bytes
            /\ BelowSaturation(v, sx.factor) => r = 0
            /\ AboveSaturation(v, sx.factor) => r = 255
            /\ (sx.factor = MIDTONE_CONTRAST_FACTOR /\ v <= 42) => r = 0
            /\ (sx.factor = MIDTONE_CONTRAST_FACTOR /\ v >= 213) => r = 255

C14_Witness ==
    /\ MidtoneDone /\ sx.factor = MIDTONE_CONTRAST_FACTOR
    /\ sx.data[1] = 42
    /\ BelowSaturation(42, sx.factor)
    /\ sx.result[1][1] = 0

HexDone == sx.fn = "hexToRgb" /\ sx.result # <<>>

\* the base-16 value of the two digits of hex after position i
PairValue(hex, i) == 16 * DigitValue(hex[i + 1]) + DigitValue(hex[i + 2])

\* C15: for '#' followed by six hex digits hexToRgb returns the base-16
\* values of digit pairs 1-2, 3-4 and 5-6, each in 0..255; '#1b602f' gives
\* (27, 96, 47) and '#f784c5' gives (247, 132, 197)
C15_HexToRgbPairs ==
    HexDone =>
        /\ sx.result[1] = Rgb(PairValue(sx.hex, 1), PairValue(sx.hex, 3), PairValue(sx.hex, 5))
        /\ \A c \in {sx.result[1].r, sx.result[1].g, sx.result[1].b} :
                ~c.nan /\ c.val \in Bytes
        /\ sx.hex = DEFAULT_DARK_HEX => sx.result[1] = Rgb(27, 96, 47)
        /\ sx.hex = DEFAULT_LIGHT_HEX => sx.result[1] = Rgb(247, 132, 197)

C15_Witness ==
    /\ HexDone /\ sx.hex = DEFAULT_LIGHT_HEX
    /\ sx.result[1] = Rgb(247, 132, 197)

\* the (dark, light) arguments of the applyDuotone calls of the current run
DuotoneArgs == {trace[k].args : k \in {j \in 1..Len(trace) : trace[j].fn = "applyDuotone"}}

IsByte(c) == ~c.nan /\ c.val \in Bytes

\* C16: for every colour string the validation of processImage accepts
\* (optional '#', then 3 or 6 hex digits), hexToRgb returns r, g and b that
\* are all integers in 0..255, for '#RGB' as well as for '#RRGGBB'
C16_AcceptedHexDecodes ==
    \A args \in DuotoneArgs : \A rgb \in {args[1], args[2]} :
        IsByte(rgb.r) /\ IsByte(rgb.g) /\ IsByte(rgb.b)

\* what holds of C16: the six-digit strings held by the text fields decode
\* to integers in 0..255
SixDigitHexDecodes ==
    (trace # <<>> /\ Len(darkColorText) = 7 /\ Len(lightColorText) = 7)
        => C16_AcceptedHexDecodes

BothHexValid == HexRegexTest(darkColorText) /\ HexRegexTest(lightColorText)

\* no stage is running or has run in the current handler unless both text
\* fields hold strings that pass hexRegex
NeverRunOnInvalidHex ==
    (pc # "idle" \/ trace # <<>> \/ outcome \in {"done", "threw"}) => BothHexValid

\* a handler that ends with a text field invalid has not touched the
\* canvases, apart from the clearing handleImageLoad does before its call
InvalidHexKeepsCanvases ==
    (pc = "idle" /\ ~BothHexValid') =>
        /\ pc' = "idle"
        /\ outcome' \in {"notCalled", "badHex", "noImage", "imageError"}
        /\ ~HandleImageLoad =>
                UNCHANGED <<originalCanvas, normalDuotoneCanvas, invertedDuotoneCanvas>>
        /\ HandleImageLoad =>
                /\ originalCanvas' = ClearedCanvas
                /\ normalDuotoneCanvas' = ClearedCanvas
                /\ invertedDuotoneCanvas' = ClearedCanvas

\* C17: the pipeline and hexToRgb never run while a colour text field holds
\* a string that fails hexRegex: a text input event with an invalid value
\* does not call processImage, and a processImage call made by any other
\* event while a text value is invalid returns before resizing and leaves
\* the three canvases unchanged
C17_InvalidHexNeverProcessed ==
    [][NeverRunOnInvalidHex' /\ InvalidHexKeepsCanvases]_vars

C17_Witness ==
    /\ outcome = "badHex"
    /\ originalImage.naturalWidth # 0
    /\ ~HexRegexTest(darkColorText)
    /\ HexRegexTest(lightColorText)

\* every pixel of the buffer has R = G = B
IsGrey(data) ==
    \A k \in 1..PixelCount(data) :
        data[4 * k - 3] = data[4 * k - 2] /\ data[4 * k - 2] = data[4 * k - 1]

\* C18: in every run every pixel of the buffer handed to applyDuotone has
\* R = G = B: applyGreyscale establishes it, applyAutoContrast (stretching
\* or returning its input) and applyMidtoneContrast keep it, and so do the
\* copies made between the stages
C18_DuotoneInputIsGrey ==
    \A k \in 1..Len(trace) :
        /\ trace[k].fn \in {"applyGreyscale", "applyAutoContrast", "applyMidtoneContrast"}
               => IsGrey(trace[k].output)
        /\ trace[k].fn \in {"applyAutoContrast", "applyMidtoneContrast", "applyDuotone"}
               => IsGrey(trace[k].input)

C18_Witness ==
    /\ outcome = "done" /\ Len(trace) = 6
    /\ ~IsGrey(trace[1].output)
    /\ trace[3].output # trace[3].input
    /\ trace[4].output # trace[4].input
    /\ IsGrey(trace[5].input) /\ IsGrey(trace[6].input)

Between(x, a, b) == MinOf({a, b}) <= x /\ x <= MaxOf({a, b})

\* C19: every output channel of applyDuotone lies between the dark and the
\* light component of that channel, inclusive; at v = 0 the output is
\* exactly dark and at v = 255 exactly light
C19_DuotoneWithinEndpoints ==
    DuotoneDone =>
        LET out == sx.normal[1]
            v == sx.data[1]
        IN  /\ Between(out[1], sx.dark.r.val, sx.light.r.val)
            /\ Between(out[2], sx.dark.g.val, sx.light.g.val)
            /\ Between(out[3], sx.dark.b.val, sx.light.b.val)
            /\ v = 0 => SubSeq(out, 1, 3) = <<sx.dark.r.val, sx.dark.g.val, sx.dark.b.val>>
            /\ v = 255 => SubSeq(out, 1, 3) = <<sx.light.r.val, sx.light.g.val, sx.light.b.val>>

\* what holds of C19: the ends are exact, and between distinct components
\* the output stays within them; with dark = light it is at most one below
DuotoneWithinEndpointsUnlessEqual ==
    DuotoneDone =>
        LET out == sx.normal[1]
            v == sx.data[1]
            dark == <<sx.dark.r.val, sx.dark.g.val, sx.dark.b.val>>
            light == <<sx.light.r.val, sx.light.g.val, sx.light.b.val>>
        IN  /\ \A c \in 1..3 :
                IF dark[c] = light[c] THEN out[c] \in {dark[c] - 1, dark[c]}
                ELSE Between(out[c], dark[c], light[c])
            /\ v = 0 => SubSeq(out, 1, 3) = dark
            /\ v = 255 => SubSeq(out, 1, 3) = light

\* every pending event of the upload control has been delivered
UploadQuiescent ==
    /\ pc = "idle"
    /\ upload.readers = {} /\ upload.decoding = 0 /\ upload.timers = 0

\* originalImage and the three canvases hold the result for the n-th file
ShowsFile(n) ==
    /\ originalImage = FilePhoto(n)
    /\ outcome = "done"
    /\ LET dims == ResizedDims([width |-> FilePhoto(n).naturalWidth,
                                height |-> FilePhoto(n).naturalHeight],
                               MAX_LONGEST_EDGE_PX, MIN_SHORTEST_EDGE_PX)
       IN  \A canvas \in {originalCanvas, normalDuotoneCanvas, invertedDuotoneCanvas} :
               canvas.width = dims.width.val /\ canvas.height = dims.height.val
    /\ originalCanvas.data = FilePhoto(n).pixels
    /\ RunInOrder

\* C20: after any sequence of file selections, under every interleaving of
\* the FileReader onload callbacks, the image load events and the zero-delay
\* check, once all pending events are delivered originalImage and the three
\* canvases hold the result for the most recently selected file
C20_LatestFileShown ==
    (UploadQuiescent /\ upload.count > 0 /\ ~upload.cancelled) => ShowsFile(upload.count)

\* what holds of C20: the latest file is shown whenever no onload was
\* delivered ahead of the onload of an earlier selection
LatestFileShownUnlessOvertaken ==
    (UploadQuiescent /\ upload.count > 0 /\ ~upload.cancelled /\ ~upload.overtaken)
        => ShowsFile(upload.count)

====
